---- MODULE Spec2Model ----
(***************************************************************************)
(* The session and streaming event orchestrator of VenkyAI: the App        *)
(* component (React state, Tauri event listeners, async session, capture   *)
(* and chat controls) and the guards of the Overlay panel that calls it.   *)
(*                                                                         *)
(* Strings are sequences of symbols; '+' on strings is \o, and             *)
(* String.prototype.includes is the substring search Includes.             *)
(* The timestamp of a transcript entry (new Date().toLocaleTimeString())   *)
(* is left out of the entries: no handler reads it.                        *)
(***************************************************************************)
EXTENDS Naturals, Sequences, FiniteSets, Bags

\* ------------------------------------------------------------------ bounds
\* Longest transcript log, conversation log and streaming buffer explored,
\* and the most async calls pending at once.
MaxTranscript == 2
MaxSuggestions == 2
MaxBuffer == 2
MaxTasks == 2

\* ------------------------------------------------------------------ inputs
\* The symbols strings are made of. The silence sentinel '[SILENCE]' is the
\* two-symbol string below, so that a payload can hold it, hold its halves
\* in the wrong order, or hold only part of it.
SILENCE == <<"[SIL", "ENCE]">>
Tokens == {<<"[SIL">>, <<"ENCE]">>}
Payloads == {<<>>, <<"[SIL">>, <<"ENCE]", "[SIL">>, <<"[SIL", "ENCE]">>}
Chunks == {<<"hello">>}
TypedMessages == {<<"Hi">>}
\* Texts that begin with the prefixes the Overlay reads the role from
PrefixedTexts == {<<"You: ", "Hi">>, <<"Error: ", "failed">>}
QuickActions == {<<"Summarize the meeting so far">>,
                 <<"What questions should I ask?">>,
                 <<"Generate action items">>}
Responses == {<<"Hi there">>}
Transcriptions == {<<>>, <<"spoken">>}
Errors == {<<"failed">>}
Sessions == {"s1", "s2"}
NoSession == "null"
NoTimer == 0
TimerIds == {1, 2}

\* The eight event kinds of the listeners, in the order they are subscribed.
Handlers == <<"llm-token", "llm-stream-start", "llm-stream-end",
              "overlay-visibility", "meeting-detected", "session-auto-started",
              "transcription-chunk", "live-suggestion">>

\* ----------------------------------------------------------------- helpers
\* String.prototype.includes: sub occurs in s as a contiguous substring.
Includes(s, sub) ==
    \E i \in 0..(Len(s) - Len(sub)) :
        \A j \in 1..Len(sub) : s[i + j] = sub[j]

\* A transcript entry {role, content}.
Entry(role, content) == [role |-> role, content |-> content]

VARIABLES
    isSessionActive,    \* useState(false)
    sessionInfo,        \* useState<Session | null>(null): a session id or NoSession
    transcript,         \* useState<TranscriptEntry[]>([])
    isRecording,        \* useState(false)
    isCapturing,        \* useState(false)
    suggestions,        \* useState<string[]>([]): the conversation log
    isLoading,          \* useState(false)
    isStreaming,        \* useState(false)
    streamingText,      \* useState(''): the streaming buffer
    isTranscribing,     \* useState(false)
    overlayVisible,     \* useState(true)
    showSetup,          \* useState(false)
    captureInterval,    \* useRef(null): the timer handle, or NoTimer
    timers,             \* the setInterval timers not yet cleared
    tasks,              \* bag of async calls suspended at an await
    subs,               \* per event kind: the state of its listen() subscription
    torndown,           \* the effect's cleanup has run
    streamTokens,       \* history: the tokens emitted since the last stream start
    dropped,            \* history: the stream state the last stream start reset
    startedEmpty,       \* history: the conversation log and the buffer were
                        \* empty when the current session became current
    last                \* history: the step just taken

vars == <<isSessionActive, sessionInfo, transcript, isRecording, isCapturing,
          suggestions, isLoading, isStreaming, streamingText, isTranscribing,
          overlayVisible, showSetup, captureInterval, timers, tasks, subs,
          torndown, streamTokens, dropped, startedEmpty, last>>

sessionVars == <<isSessionActive, sessionInfo, startedEmpty>>
captureVars == <<isRecording, isCapturing, captureInterval, timers>>
streamVars == <<isStreaming, streamingText, streamTokens, dropped>>
chatVars == <<suggestions, isLoading>>
uiVars == <<overlayVisible, showSetup, isTranscribing>>
lifeVars == <<subs, torndown>>

\* The record of a step: the handler or continuation that ran (op), the
\* outcome of the command it resumed from (ok), the backend command it
\* issued (cmd), the event payload or session it was given, whether it
\* raised an alert, whether an async function returned in it (done), and the
\* timer handle the ref held when the step began (timer).
Step(op, ok, cmd, payload, session, alert, done) ==
    [op |-> op, ok |-> ok, cmd |-> cmd, payload |-> payload,
     session |-> session, alert |-> alert, done |-> done,
     timer |-> captureInterval]

NoCmd == "none"

\* An event step: a listener ran on a payload; it finishes in the step.
EventStep(op, cmd, payload, session) ==
    Step(op, TRUE, cmd, payload, session, FALSE, FALSE)

\* A suspended async call: the function (op), the command it awaits (pc) and
\* the state values its closure captured when it was called.
Task(op, pc, rec, cap, act) ==
    [op |-> op, pc |-> pc, rec |-> rec, cap |-> cap, act |-> act]

Pending == BagCardinality(tasks)
Suspend(t) == tasks (+) SetToBag({t})
Resume(t) == tasks (-) SetToBag({t})

\* The state once the component is mounted and its effect has issued the
\* eight listen() calls, each subscription in the state sub.
Mounted(sub) ==
    /\ isSessionActive = FALSE
    /\ sessionInfo = NoSession
    /\ startedEmpty = TRUE
    /\ transcript = <<>>
    /\ isRecording = FALSE
    /\ isCapturing = FALSE
    /\ suggestions = <<>>
    /\ isLoading = FALSE
    /\ isStreaming = FALSE
    /\ streamingText = <<>>
    /\ isTranscribing = FALSE
    /\ overlayVisible = TRUE
    /\ showSetup = FALSE
    /\ captureInterval = NoTimer
    /\ timers = {}
    /\ tasks = EmptyBag
    /\ subs = [i \in 1..Len(Handlers) |-> sub]
    /\ torndown = FALSE
    /\ streamTokens = <<>>
    /\ dropped = [text |-> <<>>, streaming |-> FALSE]
    /\ last = Step("mount", TRUE, NoCmd, <<>>, NoSession, FALSE, FALSE)

\* The component in service: every listen() call has resolved.
Init == Mounted("listening")

\* An event of kind Handlers[i] is delivered to its listener only while the
\* backend has the listener registered.
Delivers(i) == subs[i] \in {"registered", "listening"}

\* ------------------------------------------------------- stream aggregator
\* llm-token: setStreamingText(prev => prev + event.payload)
TokenBuffer(prev, payload) == prev \o payload

OnToken(payload) ==
    /\ Delivers(1)
    /\ Len(streamingText) + Len(payload) <= MaxBuffer
    /\ isStreaming => Len(streamTokens) + Len(payload) <= MaxBuffer
    /\ streamingText' = TokenBuffer(streamingText, payload)
    /\ streamTokens' = IF isStreaming THEN streamTokens \o payload ELSE streamTokens
    /\ last' = EventStep("llm-token", NoCmd, payload, NoSession)
    /\ UNCHANGED <<sessionVars, transcript, captureVars, chatVars, isStreaming,
                   dropped, uiVars, tasks, lifeVars>>

\* llm-stream-start: setIsStreaming(true); setStreamingText('')
\* Mutant: the reset of the buffer is left out.
StartBufferKept(prev) == prev

StartBuffer(prev) == <<>>

OnStreamStart ==
    /\ Delivers(2)
    /\ isStreaming' = TRUE
    /\ streamingText' = StartBuffer(streamingText)
    /\ streamTokens' = <<>>
    /\ dropped' = [text |-> streamingText, streaming |-> isStreaming]
    /\ last' = EventStep("llm-stream-start", NoCmd, <<>>, NoSession)
    /\ UNCHANGED <<sessionVars, transcript, captureVars, chatVars, uiVars,
                   tasks, lifeVars>>

\* if (event.payload && !event.payload.includes('[SILENCE]'))
\*     setSuggestions(prev => [...prev, event.payload])
\* An empty string is falsy.
\* Mutant: the sentinel check is left out.
SuggestibleAnyText(payload) == payload # <<>>

Suggestible(payload) == payload # <<>> /\ ~Includes(payload, SILENCE)

\* Mutant: the item finalized is the buffer, not the event's payload.
EndSuggestionsFromBuffer(prev, payload) ==
    IF Suggestible(payload) THEN Append(prev, streamingText) ELSE prev

EndSuggestions(prev, payload) ==
    IF Suggestible(payload) THEN Append(prev, payload) ELSE prev

\* llm-stream-end
OnStreamEnd(payload) ==
    /\ Delivers(3)
    /\ Len(EndSuggestions(suggestions, payload)) <= MaxSuggestions
    /\ isStreaming' = FALSE
    /\ suggestions' = EndSuggestions(suggestions, payload)
    /\ streamingText' = <<>>
    /\ last' = EventStep("llm-stream-end", NoCmd, payload, NoSession)
    /\ UNCHANGED <<sessionVars, transcript, captureVars, isLoading, uiVars,
                   tasks, lifeVars, streamTokens, dropped>>

\* live-suggestion: the same filter on its text as llm-stream-end
OnLiveSuggestion(text) ==
    /\ Delivers(8)
    /\ Len(EndSuggestions(suggestions, text)) <= MaxSuggestions
    /\ suggestions' = EndSuggestions(suggestions, text)
    /\ last' = EventStep("live-suggestion", NoCmd, text, NoSession)
    /\ UNCHANGED <<sessionVars, transcript, captureVars, isLoading, streamVars,
                   uiVars, tasks, lifeVars>>

\* ------------------------------------------------------------ other events
\* overlay-visibility: setOverlayVisible(event.payload)
OnVisibility(visible) ==
    /\ Delivers(4)
    /\ overlayVisible' = visible
    /\ last' = EventStep("overlay-visibility", NoCmd, <<>>, NoSession)
    /\ UNCHANGED <<sessionVars, transcript, captureVars, chatVars, streamVars,
                   showSetup, isTranscribing, tasks, lifeVars>>

\* meeting-detected: the listener's body is commented out
OnMeetingDetected ==
    /\ Delivers(5)
    /\ last' = EventStep("meeting-detected", NoCmd, <<>>, NoSession)
    /\ UNCHANGED <<sessionVars, transcript, captureVars, chatVars, streamVars,
                   uiVars, tasks, lifeVars>>

\* session-auto-started: what the listener sets the two capture flags to
AutoStartRecording(prev) == TRUE
\* Mutant: the capture flag is left as it was.
AutoStartCapturingKept(prev) == prev

AutoStartCapturing(prev) == TRUE
AutoStartTranscript(prev) == <<>>

OnAutoStart(session) ==
    /\ Delivers(6)
    /\ sessionInfo' = session
    /\ isSessionActive' = TRUE
    /\ startedEmpty' = (suggestions = <<>> /\ streamingText = <<>>)
    /\ transcript' = AutoStartTranscript(transcript)
    /\ isRecording' = AutoStartRecording(isRecording)
    /\ isCapturing' = AutoStartCapturing(isCapturing)
    /\ last' = EventStep("session-auto-started", NoCmd, <<>>, session)
    /\ UNCHANGED <<captureInterval, timers, chatVars, streamVars, uiVars,
                   tasks, lifeVars>>

\* transcription-chunk: append the entry, then invoke('add_transcript_entry')
\* without awaiting it (.catch only logs)
OnTranscriptionChunk(text) ==
    /\ Delivers(7)
    /\ Len(transcript) < MaxTranscript
    /\ Pending < MaxTasks
    /\ transcript' = Append(transcript, Entry("transcription", text))
    /\ tasks' = Suspend(Task("transcription-chunk", "add_transcript_entry",
                             FALSE, FALSE, FALSE))
    /\ last' = EventStep("transcription-chunk", "add_transcript_entry", text,
                         NoSession)
    /\ UNCHANGED <<sessionVars, captureVars, chatVars, streamVars, uiVars,
                   lifeVars>>

\* Mutant: a failed persist takes the newest entry back out of the log.
ChunkSettledTranscriptRolledBack(prev, ok) ==
    IF ok \/ prev = <<>> THEN prev ELSE SubSeq(prev, 1, Len(prev) - 1)

\* What the settled persist leaves of the transcript log: .catch only logs.
ChunkSettledTranscript(prev, ok) == prev

\* The add_transcript_entry promise of a chunk settles: success is dropped,
\* failure is logged.
ChunkPersisted(t, ok) ==
    /\ t.op = "transcription-chunk"
    /\ transcript' = ChunkSettledTranscript(transcript, ok)
    /\ tasks' = Resume(t)
    /\ last' = Step("transcription-chunk:add_transcript_entry", ok, NoCmd,
                    <<>>, NoSession, FALSE, TRUE)
    /\ UNCHANGED <<sessionVars, captureVars, chatVars, streamVars, uiVars,
                   lifeVars>>

\* ------------------------------------------------------- session controls
\* The session button while no session is active: setShowSetup(true)
OpenSetup ==
    /\ overlayVisible /\ ~torndown
    /\ ~isSessionActive
    /\ showSetup' = TRUE
    /\ last' = Step("openSetup", TRUE, NoCmd, <<>>, NoSession, FALSE, FALSE)
    /\ UNCHANGED <<sessionVars, transcript, captureVars, chatVars, streamVars,
                   overlayVisible, isTranscribing, tasks, lifeVars>>

\* SessionSetup's onCancel: setShowSetup(false)
CancelSetup ==
    /\ overlayVisible /\ ~torndown
    /\ showSetup
    /\ showSetup' = FALSE
    /\ last' = Step("cancelSetup", TRUE, NoCmd, <<>>, NoSession, FALSE, FALSE)
    /\ UNCHANGED <<sessionVars, transcript, captureVars, chatVars, streamVars,
                   overlayVisible, isTranscribing, tasks, lifeVars>>

\* startSession up to its await: SessionSetup's onStart, rendered while showSetup
StartSessionCall ==
    /\ overlayVisible /\ ~torndown
    /\ showSetup
    /\ Pending < MaxTasks
    /\ tasks' = Suspend(Task("startSession", "create_session", FALSE, FALSE, FALSE))
    /\ last' = Step("startSession", TRUE, "create_session", <<>>, NoSession,
                    FALSE, FALSE)
    /\ UNCHANGED <<sessionVars, transcript, captureVars, chatVars, streamVars,
                   uiVars, lifeVars>>

\* startSession after create_session resolved with info
\* Mutant: the transcript log is not cleared.
StartedTranscriptKept(prev) == prev

StartedTranscript(prev) == <<>>

SessionCreated(t, info) ==
    /\ t.op = "startSession"
    /\ sessionInfo' = info
    /\ isSessionActive' = TRUE
    /\ startedEmpty' = (suggestions = <<>> /\ streamingText = <<>>)
    /\ transcript' = StartedTranscript(transcript)
    /\ showSetup' = FALSE
    /\ tasks' = Resume(t)
    /\ last' = Step("startSession:create_session", TRUE, NoCmd, <<>>, info,
                    FALSE, TRUE)
    /\ UNCHANGED <<captureVars, chatVars, streamVars, overlayVisible,
                   isTranscribing, lifeVars>>

\* startSession's catch: setShowSetup(false); alert(...)
\* Mutant: the prompt is closed on success only.
FailedStartSetupKept(prev) == prev

FailedStartSetup(prev) == FALSE

SessionCreateFailed(t) ==
    /\ t.op = "startSession"
    /\ showSetup' = FailedStartSetup(showSetup)
    /\ tasks' = Resume(t)
    /\ last' = Step("startSession:create_session", FALSE, NoCmd, <<>>,
                    NoSession, TRUE, TRUE)
    /\ UNCHANGED <<sessionVars, transcript, captureVars, chatVars, streamVars,
                   overlayVisible, isTranscribing, lifeVars>>

\* endSession up to its first await: the session button while a session is
\* active. The closure holds the isRecording and isCapturing of this render.
EndSessionCall ==
    /\ overlayVisible /\ ~torndown
    /\ isSessionActive
    /\ Pending < MaxTasks
    /\ tasks' = Suspend(Task("endSession", "end_session", isRecording,
                             isCapturing, FALSE))
    /\ last' = Step("endSession", TRUE, "end_session", <<>>, NoSession, FALSE,
                    FALSE)
    /\ UNCHANGED <<sessionVars, transcript, captureVars, chatVars, streamVars,
                   uiVars, lifeVars>>

\* if (captureInterval.current) { clearInterval(captureInterval.current);
\*                                captureInterval.current = null; }
\* Mutant: the ref is set to null without clearInterval.
StoppedTimersLeaked(live, handle) == live

\* Mutant: clearInterval without setting the ref to null.
ClearedHandleKept(handle) == handle

StoppedTimers(live, handle) == live \ {handle}
ClearedHandle(handle) == NoTimer

\* endSession's last synchronous stretch: clear the capture interval if the
\* ref holds one, setSuggestions([]), setStreamingText('')
EndCleanup(t, op, ok) ==
    /\ captureInterval' = ClearedHandle(captureInterval)
    /\ timers' = StoppedTimers(timers, captureInterval)
    /\ suggestions' = <<>>
    /\ streamingText' = <<>>
    /\ tasks' = Resume(t)
    /\ last' = Step(op, ok, NoCmd, <<>>, NoSession, FALSE, TRUE)

\* endSession suspends at the next stop command
EndAwait(t, op, ok, cmd) ==
    /\ tasks' = Resume(t) (+) SetToBag({[t EXCEPT !.pc = cmd]})
    /\ last' = Step(op, ok, cmd, <<>>, NoSession, FALSE, FALSE)
    /\ UNCHANGED <<captureInterval, timers, suggestions, streamingText>>

\* What a failed end_session leaves of the session status: the throw leaves
\* the try block before setIsSessionActive(false), and the catch only logs.
\* Mutant: the session is marked ended whatever the outcome.
EndFailedActiveCleared(prev) == FALSE

EndFailedActive(prev) == prev

\* await invoke('end_session') threw
EndSessionFailed(t) ==
    /\ t.op = "endSession" /\ t.pc = "end_session"
    /\ isSessionActive' = EndFailedActive(isSessionActive)
    /\ tasks' = Resume(t)
    /\ last' = Step("endSession:end_session", FALSE, NoCmd, <<>>, NoSession,
                    FALSE, TRUE)
    /\ UNCHANGED <<sessionInfo, startedEmpty, transcript, captureVars, chatVars,
                   streamVars, uiVars, lifeVars>>

\* await invoke('end_session') resolved: setIsSessionActive(false), then the
\* stop commands the captured flags ask for
EndSessionEnded(t) ==
    /\ t.op = "endSession" /\ t.pc = "end_session"
    /\ isSessionActive' = FALSE
    /\ IF t.rec
         THEN EndAwait(t, "endSession:end_session", TRUE, "stop_audio_capture")
       ELSE IF t.cap
         THEN EndAwait(t, "endSession:end_session", TRUE,
                       "stop_system_audio_capture")
       ELSE EndCleanup(t, "endSession:end_session", TRUE)
    /\ UNCHANGED <<sessionInfo, startedEmpty, transcript, isRecording,
                   isCapturing, isLoading, isStreaming, streamTokens, dropped,
                   uiVars, lifeVars>>

\* await invoke('stop_audio_capture').catch(console.error) settled, either way
EndAudioStopped(t, ok) ==
    /\ t.op = "endSession" /\ t.pc = "stop_audio_capture"
    /\ isRecording' = FALSE
    /\ IF t.cap
         THEN EndAwait(t, "endSession:stop_audio_capture", ok,
                       "stop_system_audio_capture")
       ELSE EndCleanup(t, "endSession:stop_audio_capture", ok)
    /\ UNCHANGED <<sessionVars, transcript, isCapturing, isLoading, isStreaming,
                   streamTokens, dropped, uiVars, lifeVars>>

\* await invoke('stop_system_audio_capture').catch(console.error) settled
EndSystemAudioStopped(t, ok) ==
    /\ t.op = "endSession" /\ t.pc = "stop_system_audio_capture"
    /\ isCapturing' = FALSE
    /\ EndCleanup(t, "endSession:stop_system_audio_capture", ok)
    /\ UNCHANGED <<sessionVars, transcript, isRecording, isLoading, isStreaming,
                   streamTokens, dropped, uiVars, lifeVars>>

\* ---------------------------------------------------------- audio recording
\* toggleRecording up to its await
ToggleRecordingCall ==
    /\ overlayVisible /\ ~torndown
    /\ Pending < MaxTasks
    /\ LET cmd == IF isRecording THEN "stop_audio_capture"
                                 ELSE "start_audio_capture"
       IN /\ tasks' = Suspend(Task("toggleRecording", cmd, isRecording, FALSE,
                                   FALSE))
          /\ last' = Step("toggleRecording", TRUE, cmd, <<>>, NoSession, FALSE,
                          FALSE)
    /\ UNCHANGED <<sessionVars, transcript, captureVars, chatVars, streamVars,
                   uiVars, lifeVars>>

\* toggleRecording after its command settled: the flag flips on success only
RecordingToggled(t, ok) ==
    /\ t.op = "toggleRecording"
    /\ isRecording' = IF ok THEN ~t.rec ELSE isRecording
    /\ tasks' = Resume(t)
    /\ last' = Step("toggleRecording:" \o t.pc, ok, NoCmd, <<>>, NoSession,
                    FALSE, TRUE)
    /\ UNCHANGED <<sessionVars, transcript, isCapturing, captureInterval, timers,
                   chatVars, streamVars, uiVars, lifeVars>>

\* ----------------------------------------------------------- screen capture
\* setInterval returns a handle no live timer has
NewTimer == CHOOSE id \in TimerIds \ timers : \A other \in TimerIds \ timers : id <= other

\* Mutant: the timer is created without setting the flag.
StartedCapturingKept(prev) == prev

\* setIsCapturing(true) in toggleCapture's start branch
StartedCapturing(prev) == TRUE

\* toggleCapture (synchronous)
ToggleCapture ==
    /\ overlayVisible /\ ~torndown
    /\ IF isCapturing
         THEN /\ captureInterval' = ClearedHandle(captureInterval)
              /\ timers' = StoppedTimers(timers, captureInterval)
              /\ isCapturing' = FALSE
         ELSE /\ TimerIds \ timers # {}
              /\ isCapturing' = StartedCapturing(isCapturing)
              /\ captureInterval' = NewTimer
              /\ timers' = timers \cup {NewTimer}
    /\ last' = Step("toggleCapture", TRUE, NoCmd, <<>>, NoSession, FALSE, FALSE)
    /\ UNCHANGED <<sessionVars, transcript, isRecording, chatVars, streamVars,
                   uiVars, tasks, lifeVars>>

\* The interval callback of a live timer up to its await
CaptureTick(id) ==
    /\ id \in timers
    /\ Pending < MaxTasks
    /\ tasks' = Suspend(Task("captureTick", "capture_screen", FALSE, FALSE, FALSE))
    /\ last' = Step("captureTick", TRUE, "capture_screen", <<>>, NoSession,
                    FALSE, FALSE)
    /\ UNCHANGED <<sessionVars, transcript, captureVars, chatVars, streamVars,
                   uiVars, lifeVars>>

\* Mutant: a failed capture cancels the schedule.
TickedTimersCancelled(live, ok) == IF ok THEN live ELSE {}

\* The timers a settled capture_screen leaves: the catch only logs.
TickedTimers(live, ok) == live

\* The interval callback after capture_screen settled: a failure is logged
CaptureTicked(t, ok) ==
    /\ t.op = "captureTick"
    /\ timers' = TickedTimers(timers, ok)
    /\ tasks' = Resume(t)
    /\ last' = Step("captureTick:capture_screen", ok, NoCmd, <<>>, NoSession,
                    FALSE, TRUE)
    /\ UNCHANGED <<sessionVars, transcript, isRecording, isCapturing,
                   captureInterval, chatVars, streamVars, uiVars, lifeVars>>

\* ----------------------------------------------------------- speech-to-text
\* transcribeAudio up to its first await: the STT button, disabled while
\* isTranscribing || !isRecording. The closure holds this render's
\* isSessionActive.
TranscribeCall ==
    /\ overlayVisible /\ ~torndown
    /\ ~isTranscribing /\ isRecording
    /\ Pending < MaxTasks
    /\ isTranscribing' = TRUE
    /\ tasks' = Suspend(Task("transcribeAudio", "transcribe_audio", FALSE, FALSE,
                             isSessionActive))
    /\ last' = Step("transcribeAudio", TRUE, "transcribe_audio", <<>>, NoSession,
                    FALSE, FALSE)
    /\ UNCHANGED <<sessionVars, transcript, captureVars, chatVars, streamVars,
                   overlayVisible, showSetup, lifeVars>>

\* transcribe_audio resolved with text: a non-empty text is appended, and
\* persisted when the captured isSessionActive is true
Transcribed(t, text) ==
    /\ t.op = "transcribeAudio" /\ t.pc = "transcribe_audio"
    /\ IF text # <<>>
         THEN /\ Len(transcript) < MaxTranscript
              /\ transcript' = Append(transcript, Entry("transcription", text))
         ELSE UNCHANGED transcript
    /\ IF text # <<>> /\ t.act
         THEN /\ tasks' = Resume(t) (+)
                          SetToBag({[t EXCEPT !.pc = "add_transcript_entry"]})
              /\ last' = Step("transcribeAudio:transcribe_audio", TRUE,
                              "add_transcript_entry", text, NoSession, FALSE,
                              FALSE)
              /\ UNCHANGED isTranscribing
         ELSE /\ tasks' = Resume(t)
              /\ isTranscribing' = FALSE
              /\ last' = Step("transcribeAudio:transcribe_audio", TRUE, NoCmd,
                              text, NoSession, FALSE, TRUE)
    /\ UNCHANGED <<sessionVars, captureVars, chatVars, streamVars,
                   overlayVisible, showSetup, lifeVars>>

\* Either command of transcribeAudio threw (catch logs), or its
\* add_transcript_entry resolved: finally setIsTranscribing(false)
TranscribeSettled(t, ok) ==
    /\ t.op = "transcribeAudio"
    /\ ok => t.pc = "add_transcript_entry"
    /\ isTranscribing' = FALSE
    /\ tasks' = Resume(t)
    /\ last' = Step("transcribeAudio:" \o t.pc, ok, NoCmd, <<>>, NoSession,
                    FALSE, TRUE)
    /\ UNCHANGED <<sessionVars, transcript, captureVars, chatVars, streamVars,
                   overlayVisible, showSetup, lifeVars>>

\* ------------------------------------------------------------------ AI chat
\* What the Overlay lets the user send: a typed message through handleSubmit
\* (returns when isLoading), or a quick action, shown while the conversation
\* log is empty and nothing streams.
CanSubmit(message) ==
    message \in TypedMessages \cup PrefixedTexts /\ ~isLoading
CanQuickAction(message) ==
    message \in QuickActions /\ Len(suggestions) = 0 /\ ~isStreaming

\* sendMessage up to its first await. A call is let in while the conversation
\* log has room for its item and for the error item of its catch.
SendMessageCall(message) ==
    /\ overlayVisible /\ ~torndown
    /\ CanSubmit(message) \/ CanQuickAction(message)
    /\ Pending < MaxTasks
    /\ Len(suggestions) + 2 <= MaxSuggestions
    /\ Len(transcript) < MaxTranscript
    /\ isLoading' = TRUE
    /\ suggestions' = Append(suggestions, <<"You: ">> \o message)
    /\ transcript' = Append(transcript, Entry("user", message))
    /\ tasks' = Suspend(Task("sendMessage", "stream_chat", FALSE, FALSE,
                             isSessionActive))
    /\ last' = Step("sendMessage", TRUE, "stream_chat", message, NoSession,
                    FALSE, FALSE)
    /\ UNCHANGED <<sessionVars, captureVars, streamVars, uiVars, lifeVars>>

\* Mutant: the assistant entry is put in front of the log.
RespondedTranscriptInFront(prev, response) ==
    <<Entry("assistant", response)>> \o prev

\* setTranscript(prev => [...prev, {role: 'assistant', content: response}])
RespondedTranscript(prev, response) ==
    Append(prev, Entry("assistant", response))

\* stream_chat resolved with response: the assistant entry is appended, and
\* both entries are persisted when the captured isSessionActive is true
ChatResponded(t, response) ==
    /\ t.op = "sendMessage" /\ t.pc = "stream_chat"
    /\ Len(transcript) < MaxTranscript
    /\ transcript' = RespondedTranscript(transcript, response)
    /\ IF t.act
         THEN /\ tasks' = Resume(t) (+)
                          SetToBag({[t EXCEPT !.pc = "add_transcript_entry:user"]})
              /\ last' = Step("sendMessage:stream_chat", TRUE,
                              "add_transcript_entry", response, NoSession, FALSE,
                              FALSE)
              /\ UNCHANGED isLoading
         ELSE /\ tasks' = Resume(t)
              /\ isLoading' = FALSE
              /\ last' = Step("sendMessage:stream_chat", TRUE, NoCmd, response,
                              NoSession, FALSE, TRUE)
    /\ UNCHANGED <<sessionVars, captureVars, suggestions, streamVars, uiVars,
                   lifeVars>>

\* add_transcript_entry for the user's message resolved: persist the response
ChatUserSaved(t) ==
    /\ t.op = "sendMessage" /\ t.pc = "add_transcript_entry:user"
    /\ tasks' = Resume(t) (+)
                SetToBag({[t EXCEPT !.pc = "add_transcript_entry:assistant"]})
    /\ last' = Step("sendMessage:add_transcript_entry:user", TRUE,
                    "add_transcript_entry", <<>>, NoSession, FALSE, FALSE)
    /\ UNCHANGED <<sessionVars, transcript, captureVars, chatVars, streamVars,
                   uiVars, lifeVars>>

\* add_transcript_entry for the response resolved: finally setIsLoading(false)
ChatAssistantSaved(t) ==
    /\ t.op = "sendMessage" /\ t.pc = "add_transcript_entry:assistant"
    /\ isLoading' = FALSE
    /\ tasks' = Resume(t)
    /\ last' = Step("sendMessage:add_transcript_entry:assistant", TRUE, NoCmd,
                    <<>>, NoSession, FALSE, TRUE)
    /\ UNCHANGED <<sessionVars, transcript, captureVars, suggestions, streamVars,
                   uiVars, lifeVars>>

\* Mutant: the busy flag is reset on the success path only.
FailedLoadingKept(prev) == prev

\* finally { setIsLoading(false) } after the catch
FailedLoading(prev) == FALSE

\* Any command of sendMessage threw e: the catch appends `Error: ${e}`, then
\* finally setIsLoading(false)
ChatFailed(t, e) ==
    /\ t.op = "sendMessage"
    /\ Len(suggestions) < MaxSuggestions
    /\ suggestions' = Append(suggestions, <<"Error: ">> \o e)
    /\ isLoading' = FailedLoading(isLoading)
    /\ tasks' = Resume(t)
    /\ last' = Step("sendMessage:" \o t.pc, FALSE, NoCmd, e, NoSession, FALSE,
                    TRUE)
    /\ UNCHANGED <<sessionVars, transcript, captureVars, streamVars, uiVars,
                   lifeVars>>

\* msg.startsWith(prefix)
StartsWith(msg, prefix) ==
    Len(msg) >= Len(prefix) /\ SubSeq(msg, 1, Len(prefix)) = prefix

\* What the Overlay shows of a conversation item: the class read from the
\* item's prefix, and the text with a `You: ` or `Error: ` prefix sliced off.
Presented(msg) ==
    LET isUser == StartsWith(msg, <<"You: ">>)
        isError == StartsWith(msg, <<"Error: ">>)
    IN  [role |-> IF isUser THEN "user"
                  ELSE IF isError THEN "error" ELSE "assistant",
         content |-> IF isUser \/ isError THEN Tail(msg) ELSE msg]

\* ------------------------------------------------------------ specification
TaskSet == BagToSet(tasks)

StreamNext ==
    \/ \E p \in Tokens : OnToken(p)
    \/ OnStreamStart
    \/ \E p \in Payloads : OnStreamEnd(p)
    \/ \E p \in Payloads : OnLiveSuggestion(p)

SessionNext ==
    \/ OpenSetup
    \/ CancelSetup
    \/ StartSessionCall
    \/ \E t \in TaskSet, s \in Sessions : SessionCreated(t, s)
    \/ \E t \in TaskSet : SessionCreateFailed(t)
    \/ EndSessionCall
    \/ \E t \in TaskSet : EndSessionFailed(t)
    \/ \E t \in TaskSet : EndSessionEnded(t)
    \/ \E t \in TaskSet, ok \in BOOLEAN : EndAudioStopped(t, ok)
    \/ \E t \in TaskSet, ok \in BOOLEAN : EndSystemAudioStopped(t, ok)

CaptureNext ==
    \/ ToggleRecordingCall
    \/ \E t \in TaskSet, ok \in BOOLEAN : RecordingToggled(t, ok)
    \/ ToggleCapture
    \/ \E id \in TimerIds : CaptureTick(id)
    \/ \E t \in TaskSet, ok \in BOOLEAN : CaptureTicked(t, ok)

ChatNext ==
    \/ TranscribeCall
    \/ \E t \in TaskSet, x \in Transcriptions : Transcribed(t, x)
    \/ \E t \in TaskSet, ok \in BOOLEAN : TranscribeSettled(t, ok)
    \/ \E m \in TypedMessages \cup QuickActions : SendMessageCall(m)
    \/ \E t \in TaskSet, r \in Responses : ChatResponded(t, r)
    \/ \E t \in TaskSet : ChatUserSaved(t)
    \/ \E t \in TaskSet : ChatAssistantSaved(t)
    \/ \E t \in TaskSet, e \in Errors : ChatFailed(t, e)

\* The session controller with the capture controls and the events that
\* touch the session: the stream and the chat stay idle.
Next ==
    \/ SessionNext
    \/ CaptureNext
    \/ \E b \in BOOLEAN : OnVisibility(b)
    \/ \E s \in Sessions : OnAutoStart(s)
    \/ \E c \in Chunks : OnTranscriptionChunk(c)
    \/ \E t \in TaskSet, ok \in BOOLEAN : ChunkPersisted(t, ok)

Spec == Init /\ [][Next]_vars

\* The stream aggregator and the live suggestions: every writer of the
\* streaming buffer and of the conversation log among the events.
SpecStream == Init /\ [][StreamNext]_vars

\* The transcript log and everything that writes it: speech-to-text, chat,
\* transcription chunks, startSession and auto-start; the stream and the
\* capture controls stay idle and no session is ended.
NextChat ==
    \/ ChatNext
    \/ OpenSetup
    \/ CancelSetup
    \/ StartSessionCall
    \/ \E t \in TaskSet, s \in Sessions : SessionCreated(t, s)
    \/ \E t \in TaskSet : SessionCreateFailed(t)
    \/ \E s \in Sessions : OnAutoStart(s)
    \/ \E c \in Chunks : OnTranscriptionChunk(c)
    \/ \E t \in TaskSet, ok \in BOOLEAN : ChunkPersisted(t, ok)

SpecChat == Init /\ [][NextChat]_vars

\* Speech-to-text next to what starts and ends a session and a recording
\* while transcribe_audio is pending.
NextTranscribe ==
    \/ TranscribeCall
    \/ \E t \in TaskSet, x \in Transcriptions : Transcribed(t, x)
    \/ \E t \in TaskSet, ok \in BOOLEAN : TranscribeSettled(t, ok)
    \/ ToggleRecordingCall
    \/ \E t \in TaskSet, ok \in BOOLEAN : RecordingToggled(t, ok)
    \/ \E s \in Sessions : OnAutoStart(s)
    \/ EndSessionCall
    \/ \E t \in TaskSet : EndSessionFailed(t)
    \/ \E t \in TaskSet : EndSessionEnded(t)
    \/ \E t \in TaskSet, ok \in BOOLEAN : EndAudioStopped(t, ok)
    \/ \E t \in TaskSet, ok \in BOOLEAN : EndSystemAudioStopped(t, ok)

SpecTranscribe == Init /\ [][NextTranscribe]_vars

\* endSession next to what fills the streaming buffer while it runs: stream
\* starts and tokens, with auto-start to make a session Active.
NextEndStream ==
    \/ \E p \in Tokens : OnToken(p)
    \/ OnStreamStart
    \/ \E s \in Sessions : OnAutoStart(s)
    \/ EndSessionCall
    \/ \E t \in TaskSet : EndSessionFailed(t)
    \/ \E t \in TaskSet : EndSessionEnded(t)
    \/ \E t \in TaskSet, ok \in BOOLEAN : EndAudioStopped(t, ok)
    \/ \E t \in TaskSet, ok \in BOOLEAN : EndSystemAudioStopped(t, ok)

SpecEndStream == Init /\ [][NextEndStream]_vars

\* What makes a session current (startSession, auto-start) next to what
\* fills the streaming buffer and the conversation log.
NextNewSession ==
    \/ \E p \in Tokens : OnToken(p)
    \/ OnStreamStart
    \/ \E p \in Payloads : OnLiveSuggestion(p)
    \/ \E s \in Sessions : OnAutoStart(s)
    \/ OpenSetup
    \/ CancelSetup
    \/ StartSessionCall
    \/ \E t \in TaskSet, s \in Sessions : SessionCreated(t, s)
    \/ \E t \in TaskSet : SessionCreateFailed(t)

SpecNewSession == Init /\ [][NextNewSession]_vars

\* Every writer of the conversation log, on texts with and without the
\* prefixes the Overlay reads.
NextRoles ==
    \/ \E m \in TypedMessages \cup PrefixedTexts : SendMessageCall(m)
    \/ \E t \in TaskSet, r \in Responses : ChatResponded(t, r)
    \/ \E t \in TaskSet, e \in Errors : ChatFailed(t, e)
    \/ OnStreamStart
    \/ \E p \in Payloads \cup PrefixedTexts : OnStreamEnd(p)
    \/ \E p \in Payloads \cup PrefixedTexts : OnLiveSuggestion(p)

SpecRoles == Init /\ [][NextRoles]_vars

\* A backend command of a pending sendMessage responds.
ChatSettles ==
    \/ \E t \in TaskSet, r \in Responses : ChatResponded(t, r)
    \/ \E t \in TaskSet : ChatUserSaved(t)
    \/ \E t \in TaskSet : ChatAssistantSaved(t)
    \/ \E t \in TaskSet, e \in Errors : ChatFailed(t, e)

\* A backend command of a pending transcribeAudio responds.
TranscribeSettles ==
    \/ \E t \in TaskSet, x \in Transcriptions : Transcribed(t, x)
    \/ \E t \in TaskSet, ok \in BOOLEAN : TranscribeSettled(t, ok)

\* Chat and speech-to-text with auto-start, which turns the recording on and
\* makes a session Active; every backend command eventually responds.
NextBusy ==
    \/ ChatNext
    \/ \E s \in Sessions : OnAutoStart(s)

SpecBusy ==
    /\ Init
    /\ [][NextBusy]_vars
    /\ WF_vars(ChatSettles)
    /\ WF_vars(TranscribeSettles)

\* sendMessage next to endSession, which empties the conversation log while
\* a request is pending, with auto-start to make a session Active.
NextFlight ==
    \/ \E m \in TypedMessages \cup QuickActions : SendMessageCall(m)
    \/ ChatSettles
    \/ \E s \in Sessions : OnAutoStart(s)
    \/ EndSessionCall
    \/ \E t \in TaskSet : EndSessionFailed(t)
    \/ \E t \in TaskSet : EndSessionEnded(t)
    \/ \E t \in TaskSet, ok \in BOOLEAN : EndAudioStopped(t, ok)
    \/ \E t \in TaskSet, ok \in BOOLEAN : EndSystemAudioStopped(t, ok)

SpecFlight == Init /\ [][NextFlight]_vars

\* -------------------------------------------------- subscription lifecycle
\* The component just mounted: the effect has called listen() eight times and
\* holds eight pending promises.
InitLife == Mounted("pending")

\* The backend registers the listener of the i-th listen() call: events of
\* its kind are delivered from now on.
ListenRegistered(i) ==
    /\ subs[i] = "pending"
    /\ subs' = [subs EXCEPT ![i] = "registered"]
    /\ last' = Step("listen:registered", TRUE, NoCmd, <<>>, NoSession, FALSE, FALSE)
    /\ UNCHANGED <<sessionVars, transcript, captureVars, chatVars, streamVars,
                   uiVars, tasks, torndown>>

\* The promise of the i-th listen() call resolves with its unlisten function.
\* After the cleanup, the cleanup's .then(fn => fn()) calls it at once.
ListenResolved(i) ==
    /\ subs[i] = "registered"
    /\ subs' = [subs EXCEPT ![i] = IF torndown THEN "unlistened" ELSE "listening"]
    /\ last' = Step("listen:resolved", TRUE, NoCmd, <<>>, NoSession, FALSE, FALSE)
    /\ UNCHANGED <<sessionVars, transcript, captureVars, chatVars, streamVars,
                   uiVars, tasks, torndown>>

\* The effect's cleanup: unlistenX.then(fn => fn()) for the eight promises.
\* A resolved promise runs its callback before any event is delivered; a
\* pending one runs it when it resolves.
Teardown ==
    /\ ~torndown
    /\ torndown' = TRUE
    /\ subs' = [i \in DOMAIN subs |->
                   IF subs[i] = "listening" THEN "unlistened" ELSE subs[i]]
    /\ last' = Step("teardown", TRUE, NoCmd, <<>>, NoSession, FALSE, FALSE)
    /\ UNCHANGED <<sessionVars, transcript, captureVars, chatVars, streamVars,
                   uiVars, tasks>>

\* An event delivered to the i-th listener after the cleanup ran: the
\* listener runs; the state setters of the unmounted component change
\* nothing, and the transcription-chunk listener still issues its command.
LateDelivery(i) ==
    /\ torndown
    /\ Delivers(i)
    /\ IF Handlers[i] = "transcription-chunk"
         THEN /\ Pending < MaxTasks
              /\ tasks' = Suspend(Task("transcription-chunk",
                                       "add_transcript_entry", FALSE, FALSE, FALSE))
              /\ last' = EventStep(Handlers[i], "add_transcript_entry", <<>>,
                                   NoSession)
         ELSE /\ UNCHANGED tasks
              /\ last' = EventStep(Handlers[i], NoCmd, <<>>, NoSession)
    /\ UNCHANGED <<sessionVars, transcript, captureVars, chatVars, streamVars,
                   uiVars, lifeVars>>

NextLife ==
    \/ \E i \in DOMAIN subs : ListenRegistered(i)
    \/ \E i \in DOMAIN subs : ListenResolved(i)
    \/ Teardown
    \/ \E i \in DOMAIN subs : LateDelivery(i)
    \/ \E t \in TaskSet, ok \in BOOLEAN : ChunkPersisted(t, ok)

SpecLife == InitLife /\ [][NextLife]_vars

\* ---------------------------------------------------------------- properties
\* The continuations of endSession, and the steps in which it returns.
EndSessionOps == {"endSession:end_session", "endSession:stop_audio_capture",
                  "endSession:stop_system_audio_capture"}
EndSessionReturned == last.op \in EndSessionOps /\ last.done

\* The sentinel check, written out on the symbols: the two halves of
\* '[SILENCE]' next to each other, in order.
HoldsSentinel(payload) ==
    \E i \in 1..(Len(payload) - 1) :
        payload[i] = "[SIL" /\ payload[i + 1] = "ENCE]"

\* C1: whenever endSession has just returned, whether end_session succeeded
\* or failed and whatever ran while it was suspended, isRecording is false
\* and no capture timer is outstanding.
C1_EndSessionStopsCapture ==
    EndSessionReturned =>
        /\ isRecording = FALSE
        /\ captureInterval = NoTimer
        /\ timers = {}

\* C2 as stated: at the llm-stream-end that closes a stream which emitted
\* tokens, the buffer is emptied, an item added to the conversation log is the
\* concatenation of the stream's tokens in emission order, and nothing is
\* added when the payload holds the silence sentinel.
C2_ItemIsTokenConcatenation ==
    [][(last'.op = "llm-stream-end" /\ isStreaming /\ streamTokens # <<>>) =>
          /\ streamingText' = <<>>
          /\ HoldsSentinel(last'.payload) => suggestions' = suggestions
          /\ suggestions' # suggestions =>
                 suggestions' = Append(suggestions, streamTokens)]_vars

\* C2 amended: at the llm-stream-end that closes a stream, the buffer is
\* emptied, and the item added to the conversation log is the final payload
\* of the event, whatever tokens the stream emitted, unless the payload is
\* empty or holds the silence sentinel, and then nothing is added.
C2_ItemIsFinalPayload ==
    [][(last'.op = "llm-stream-end" /\ isStreaming) =>
          /\ streamingText' = <<>>
          /\ suggestions' = IF last'.payload = <<>> \/ HoldsSentinel(last'.payload)
                              THEN suggestions
                              ELSE Append(suggestions, last'.payload)]_vars

\* A stream that emitted tokens was closed by a payload that differs from
\* their concatenation, and the payload is the item added.
C2_Witness ==
    /\ last.op = "llm-stream-end"
    /\ ~isStreaming
    /\ streamTokens # <<>>
    /\ last.payload # streamTokens
    /\ suggestions # <<>>
    /\ suggestions[Len(suggestions)] = last.payload
    /\ streamingText = <<>>

\* C3: once the cleanup has run, no listener runs: the step just taken is
\* never the delivery of one of the eight event kinds.
C3_NoDeliveryAfterTeardown ==
    torndown => \A i \in DOMAIN Handlers : last.op # Handlers[i]

\* C4: isSessionActive turns false only in the step in which end_session
\* resolved, and the step in which end_session failed leaves it as it was.
C4_EndedOnlyOnSuccess ==
    [][/\ (isSessionActive /\ ~isSessionActive') =>
              (last'.op = "endSession:end_session" /\ last'.ok)
       /\ (last'.op = "endSession:end_session" /\ ~last'.ok) =>
              isSessionActive' = isSessionActive]_vars

\* end_session failed and the session is still active.
C4_Witness ==
    /\ last.op = "endSession:end_session"
    /\ ~last.ok
    /\ last.done
    /\ isSessionActive

\* C5: when create_session has just resolved, the session it returned is the
\* current one, the transcript log is empty and the session is active.
C5_StartReplacesSession ==
    (last.op = "startSession:create_session" /\ last.ok) =>
        /\ sessionInfo = last.session
        /\ transcript = <<>>
        /\ isSessionActive

\* create_session resolved while the persist command of a transcription chunk
\* appended beforehand is still pending.
C5_Witness ==
    /\ last.op = "startSession:create_session"
    /\ last.ok
    /\ sessionInfo = last.session
    /\ isSessionActive
    /\ transcript = <<>>
    /\ \E t \in TaskSet : t.op = "transcription-chunk"

\* C6 as stated: when create_session has just failed, no session is active,
\* the error was reported and the setup prompt is closed; and the prompt is
\* closed after a success too.
C6_FailedStartLeavesNoSession ==
    /\ (last.op = "startSession:create_session" /\ ~last.ok) =>
           (~isSessionActive /\ last.alert /\ ~showSetup)
    /\ (last.op = "startSession:create_session" /\ last.ok) => ~showSetup

\* C6 amended: the step in which create_session failed leaves the session
\* status and the current session as they were, reports the error and closes
\* the setup prompt; the step in which it succeeded closes the prompt too.
C6_FailedStartActivatesNothing ==
    [][(last'.op = "startSession:create_session") =>
          /\ ~showSetup'
          /\ ~last'.ok =>
                /\ last'.alert
                /\ isSessionActive' = isSessionActive
                /\ sessionInfo' = sessionInfo]_vars

\* create_session failed while an auto-started session is active: the session
\* stays active, the prompt is closed and the error reported.
C6_Witness ==
    /\ last.op = "startSession:create_session"
    /\ ~last.ok
    /\ last.alert
    /\ ~showSetup
    /\ isSessionActive
    /\ sessionInfo \in Sessions

\* C7: the step of a session-auto-started event makes the given session
\* current and active, empties the transcript log and sets the recording and
\* capture flags, and it issues no command, suspends no call and leaves the
\* timers as they were.
C7_AutoStartAdopts ==
    [][(last'.op = "session-auto-started") =>
          /\ sessionInfo' = last'.session
          /\ isSessionActive'
          /\ transcript' = <<>>
          /\ isRecording' /\ isCapturing'
          /\ last'.cmd = NoCmd
          /\ tasks' = tasks
          /\ timers' = timers
          /\ captureInterval' = captureInterval]_vars

\* A session was auto-started while an endSession call is suspended: both
\* flags are set, and there is no timer.
C7_Witness ==
    /\ last.op = "session-auto-started"
    /\ sessionInfo = last.session
    /\ isSessionActive
    /\ isRecording /\ isCapturing
    /\ captureInterval = NoTimer /\ timers = {}
    /\ transcript = <<>>
    /\ \E t \in TaskSet : t.op = "endSession"

\* C8: the step of an llm-token event delivered while isStreaming is false
\* leaves the streaming buffer as it was.
C8_TokenIgnoredWhileIdle ==
    [][(last'.op = "llm-token" /\ ~isStreaming) =>
          streamingText' = streamingText]_vars

\* C9: the step of an llm-stream-end event leaves isStreaming false and the
\* buffer empty, and appends the payload to the conversation log exactly when
\* the payload is non-empty and does not hold the sentinel; otherwise the log
\* is as it was.
C9_StreamEndFinalizes ==
    [][(last'.op = "llm-stream-end") =>
          /\ ~isStreaming'
          /\ streamingText' = <<>>
          /\ IF last'.payload # <<>> /\ ~HoldsSentinel(last'.payload)
               THEN suggestions' = Append(suggestions, last'.payload)
               ELSE suggestions' = suggestions]_vars

\* A stream ended on a payload that holds the sentinel while the log held an
\* item: the log keeps that item only.
C9_Witness ==
    /\ last.op = "llm-stream-end"
    /\ HoldsSentinel(last.payload)
    /\ Len(suggestions) = 1
    /\ ~HoldsSentinel(suggestions[1])
    /\ ~isStreaming
    /\ streamingText = <<>>

\* C10: the step of an llm-stream-start event leaves isStreaming true and the
\* buffer empty and the conversation log as it was, also when a stream was
\* already open with content in the buffer.
C10_StreamStartResets ==
    [][(last'.op = "llm-stream-start") =>
          /\ isStreaming'
          /\ streamingText' = <<>>
          /\ suggestions' = suggestions]_vars

\* A second llm-stream-start arrived while a stream was open with content in
\* the buffer: the content is gone.
C10_Witness ==
    /\ last.op = "llm-stream-start"
    /\ dropped.streaming
    /\ dropped.text # <<>>
    /\ isStreaming
    /\ streamingText = <<>>

\* C11: the step of a transcription-chunk event appends one transcription
\* entry holding the payload to the transcript log and issues one
\* add_transcript_entry command whose outcome it does not wait for; the step
\* in which that command fails leaves the log, the conversation log and every
\* other state variable as they were.
C11_ChunkAppendsThenPersists ==
    [][/\ (last'.op = "transcription-chunk") =>
            /\ transcript' =
                   Append(transcript, Entry("transcription", last'.payload))
            /\ last'.cmd = "add_transcript_entry"
            /\ tasks' = Suspend(Task("transcription-chunk",
                                     "add_transcript_entry",
                                     FALSE, FALSE, FALSE))
            /\ suggestions' = suggestions
       /\ (last'.op = "transcription-chunk:add_transcript_entry"
             /\ ~last'.ok) =>
            /\ transcript' = transcript
            /\ ~last'.alert
            /\ UNCHANGED <<sessionVars, captureVars, chatVars, streamVars,
                           uiVars, lifeVars>>]_vars

\* The persist command of a chunk failed and the chunk's entry is still the
\* newest entry of the log.
C11_Witness ==
    /\ last.op = "transcription-chunk:add_transcript_entry"
    /\ ~last.ok
    /\ transcript # <<>>
    /\ transcript[Len(transcript)] = Entry("transcription", <<"hello">>)

\* C12: the step in which transcribe_audio resolves with a text appends that
\* text to the transcript log as a transcription entry, and issues the
\* add_transcript_entry command exactly when a session is Active in that
\* step, also when a session started or ended while the command was pending.
C12_ManualPersistsIffActive ==
    [][(/\ last'.op = "transcribeAudio:transcribe_audio"
        /\ last'.ok
        /\ last'.payload # <<>>) =>
          /\ transcript' =
                 Append(transcript, Entry("transcription", last'.payload))
          /\ (last'.cmd = "add_transcript_entry") <=> isSessionActive]_vars

\* The steps in which a command of an interactive action settles.
InteractiveOps ==
    EndSessionOps \cup
    {"startSession:create_session",
     "transcribeAudio:transcribe_audio", "transcribeAudio:add_transcript_entry",
     "sendMessage:stream_chat", "sendMessage:add_transcript_entry:user",
     "sendMessage:add_transcript_entry:assistant"}

\* C13: the step in which a command of an interactive action (send message,
\* manual transcribe, start session, end session) fails shows the user the
\* failure: it raises an alert or appends an `Error: ` item to the
\* conversation log. (Every one of the four functions catches what its
\* commands throw, so none passes an exception to its caller.)
C13_InteractiveFailureSurfaced ==
    [][(last'.op \in InteractiveOps /\ ~last'.ok) =>
          \/ last'.alert
          \/ /\ Len(suggestions') = Len(suggestions) + 1
             /\ Head(suggestions'[Len(suggestions')]) = "Error: "]_vars

\* C14: in every reachable state at most one screen-capture timer is
\* outstanding, whatever capture toggles, auto-start events and session ends
\* came before.
C14_AtMostOneTimer == Cardinality(timers) <= 1

\* A session-auto-started event set isCapturing while the timer a capture
\* toggle had started was running: that timer, the one the ref holds, is the
\* only one outstanding.
C14_Witness ==
    /\ last.op = "session-auto-started"
    /\ last.timer # NoTimer
    /\ isCapturing
    /\ captureInterval = last.timer
    /\ timers = {captureInterval}

\* The steps that stop the capture schedule: toggleCapture's stop branch and
\* the last stretch of an endSession whose end_session command succeeded.
StopsSchedule ==
    \/ last'.op = "toggleCapture" /\ isCapturing
    \/ /\ last'.op \in EndSessionOps
       /\ last'.done
       /\ ~(last'.op = "endSession:end_session" /\ ~last'.ok)

\* C15: a step that stops the capture schedule leaves no timer outstanding and
\* the ref empty; when no timer exists before it, it changes neither; and
\* stopping once more in the state it leaves changes neither.
C15_StopIsIdempotent ==
    [][StopsSchedule =>
          /\ captureInterval' = NoTimer
          /\ timers' = {}
          /\ (captureInterval = NoTimer) =>
                 UNCHANGED <<captureInterval, timers>>
          /\ ClearedHandle(captureInterval') = captureInterval'
          /\ StoppedTimers(timers', captureInterval') = timers']_vars

\* toggleCapture took its stop branch while no timer existed (isCapturing set
\* by an auto-started session): nothing is outstanding, as before.
C15_Witness ==
    /\ last.op = "toggleCapture"
    /\ last.timer = NoTimer
    /\ ~isCapturing
    /\ captureInterval = NoTimer
    /\ timers = {}

\* C16: the step in which the capture_screen command of a timer tick fails
\* leaves the timer outstanding and every state variable as it was; a tick of
\* an outstanding timer issues capture_screen; and a step takes a timer away
\* only if it stops the schedule (capture stop or session end).
C16_FailedTickKeepsSchedule ==
    [][/\ (last'.op = "captureTick:capture_screen" /\ ~last'.ok) =>
            UNCHANGED <<sessionVars, transcript, captureVars, chatVars,
                        streamVars, uiVars, lifeVars>>
       /\ (last'.op = "captureTick") =>
            /\ last'.cmd = "capture_screen"
            /\ timers' = timers
       /\ (\E id \in timers : id \notin timers') => StopsSchedule]_vars

\* A capture_screen command failed while its timer is running: the timer is
\* still outstanding and held by the ref.
C16_Witness ==
    /\ last.op = "captureTick:capture_screen"
    /\ ~last.ok
    /\ isCapturing
    /\ captureInterval # NoTimer
    /\ captureInterval \in timers

\* C17: the step in which end_session settles, whether it succeeded or
\* failed, issues the stop command of an active capture subsystem: audio when
\* isRecording, else system-audio when isCapturing; and the step in which
\* stop_audio_capture settles, whether it succeeded or failed, issues
\* stop_system_audio_capture when isCapturing.
C17_StopsIssuedWhateverOutcome ==
    [][/\ (last'.op = "endSession:end_session") =>
            IF isRecording
              THEN last'.cmd = "stop_audio_capture"
              ELSE isCapturing => last'.cmd = "stop_system_audio_capture"
       /\ (last'.op = "endSession:stop_audio_capture") =>
            (isCapturing => last'.cmd = "stop_system_audio_capture")]_vars

\* C18: whenever endSession has just returned, whether end_session succeeded
\* or failed and whether a stream was open or not, the streaming buffer is
\* empty and the conversation log is empty.
C18_EndSessionClearsStream ==
    EndSessionReturned => streamingText = <<>> /\ suggestions = <<>>

\* C19: every step leaves the transcript log unchanged, or appends exactly
\* one entry at its end and keeps the entries before it, or resets it to
\* empty; and it resets it only in the step of a session-auto-started event
\* or of a create_session command that succeeded.
C19_TranscriptAppendOnly ==
    [][\/ transcript' = transcript
       \/ /\ Len(transcript') = Len(transcript) + 1
          /\ SubSeq(transcript', 1, Len(transcript)) = transcript
       \/ /\ transcript' = <<>>
          /\ \/ last'.op = "session-auto-started"
             \/ last'.op = "startSession:create_session" /\ last'.ok]_vars

\* stream_chat resolved after a message was sent: the response is the last
\* entry of the log, behind the user's message.
C19_Witness ==
    /\ last.op = "sendMessage:stream_chat"
    /\ last.ok
    /\ Len(transcript) = 2
    /\ transcript[1] = Entry("user", <<"Hi">>)
    /\ transcript[2] = Entry("assistant", <<"Hi there">>)

\* The steps that make a session current: a session-auto-started event and a
\* create_session command that succeeded.
NewSessionStep ==
    \/ last'.op = "session-auto-started"
    \/ last'.op = "startSession:create_session" /\ last'.ok

\* C20: a step that makes a new session current while another session is
\* current and Active, one that began with the conversation log and the streaming buffer
\* empty, leaves the transcript log, the conversation log and the streaming
\* buffer empty: whatever they held was produced during the previous session.
C20_NewSessionDiscardsPrevious ==
    [][(/\ NewSessionStep
        /\ isSessionActive
        /\ sessionInfo # last'.session
        /\ startedEmpty) =>
          /\ transcript' = <<>>
          /\ suggestions' = <<>>
          /\ streamingText' = <<>>]_vars

\* The newest item of the conversation log after the step, as the Overlay
\* shows it.
NewestPresented == Presented(suggestions'[Len(suggestions')])

\* C21: an item is shown with the role of the operation that added it and
\* with the text that operation was given: the message of sendMessage as
\* user, the error of a failed sendMessage command as error, the payload of an
\* llm-stream-end or live-suggestion event as assistant, also when the text
\* begins with `You: ` or `Error: `.
C21_RoleIsProducer ==
    [][/\ (last'.op = "sendMessage") =>
            NewestPresented = Entry("user", last'.payload)
       /\ (last'.op \in InteractiveOps /\ ~last'.ok
             /\ Len(suggestions') = Len(suggestions) + 1) =>
            NewestPresented = Entry("error", last'.payload)
       /\ (last'.op \in {"llm-stream-end", "live-suggestion"}
             /\ Len(suggestions') = Len(suggestions) + 1) =>
            NewestPresented = Entry("assistant", last'.payload)]_vars

\* C22: when every backend command eventually responds, isLoading set by a
\* sendMessage eventually returns to false and isTranscribing set by a
\* transcribeAudio eventually returns to false, on the failure paths too.
C22_BusyEventuallyCleared ==
    /\ isLoading ~> ~isLoading
    /\ isTranscribing ~> ~isTranscribing

\* A command of sendMessage failed: the error item is in the conversation
\* log, sendMessage has returned and isLoading is false again.
C22_Witness ==
    /\ last.op = "sendMessage:stream_chat"
    /\ ~last.ok
    /\ last.done
    /\ ~isLoading
    /\ suggestions # <<>>
    /\ Head(suggestions[Len(suggestions)]) = "Error: "

\* C23: a step marks the session not active only if it is the step of a
\* successful end_session command; and when a session-auto-started event has
\* just adopted a session, so that every endSession still pending was called
\* before the adoption, the next step of such an endSession leaves the
\* adopted session Active.
C23_AdoptedSessionStaysActive ==
    [][/\ (isSessionActive /\ ~isSessionActive') =>
            (last'.op = "endSession:end_session" /\ last'.ok)
       /\ (last.op = "session-auto-started" /\ last'.op \in EndSessionOps) =>
            isSessionActive']_vars

\* C24: in every reachable state, when isStreaming is false the streaming
\* buffer is empty.
C24_IdleBufferEmpty == ~isStreaming => streamingText = <<>>

\* The sendMessage calls whose stream_chat request has not responded yet.
InFlight == {t \in TaskSet : t.op = "sendMessage" /\ t.pc = "stream_chat"}

\* C25: a sendMessage starts only while isLoading is false and no stream_chat
\* request is in flight, whichever control started it (submit, Enter key or
\* quick-action button) and also after endSession emptied the conversation
\* log.
C25_OneRequestInFlight ==
    [][(last'.op = "sendMessage") => (~isLoading /\ InFlight = {})]_vars

\* C26: in every reachable state, when a capture timer is outstanding
\* isCapturing is true.
C26_TimerImpliesCapturing == timers # {} => isCapturing

\* An endSession called before the capture was started is between its
\* commands while the timer runs and isCapturing is true.
C26_Witness ==
    /\ last.op \in EndSessionOps
    /\ ~last.done
    /\ \E t \in TaskSet : t.op = "endSession" /\ ~t.cap
    /\ captureInterval \in timers
    /\ isCapturing
====
